---- MODULE Spec2Model ----
(***************************************************************************)
(* Model of DeviceRaw.py: the Vizvolt ingestion job.  main() starts the    *)
(* health web server on a daemon thread and then polls forever: open a     *)
(* store connection, fetch the device records, insert each one, close the  *)
(* connection, sleep 10 seconds.                                           *)
(*                                                                         *)
(* Python values are tagged records, so that None, 0, "" and a datetime    *)
(* are four different values.  A Python str is the sequence of its         *)
(* characters, so that strptime is computed character by character.        *)
(***************************************************************************)
EXTENDS FiniteSets, Integers, Sequences, TLC

\* ------------------------------------------------------------------ bounds
MaxDevices == 2   \* longest `data` list the API returns in one response
MaxRows == 2      \* rows device_data holds before it rejects every insert
MaxClock == 2     \* distinct readings of datetime.now()

\* ---------------------------------------------------------- Python values
NoneV == [t |-> "None"]
Str(cs) == [t |-> "str", s |-> cs]
Num(n) == [t |-> "int", n |-> n]
DateTime(y, mo, d, h, mi, s, us) ==
    [t |-> "datetime", year |-> y, month |-> mo, day |-> d,
     hour |-> h, minute |-> mi, second |-> s, microsecond |-> us]
ValueError == [t |-> "ValueError"]

\* string literals of the source and of the inputs, as character sequences
S_empty == << >>
S_null == <<"n", "u", "l", "l">>
S_NULL == <<"N", "U", "L", "L">>
S_NA == <<"N", "A">>
S_123 == <<"1", "2", "3">>
S_456 == <<"4", "5", "6">>
S_789 == <<"7", "8", "9">>
S_imei == <<"i", "m", "e", "i">>
S_lat == <<"1", "2", ".", "3", "4">>
\* "2024-01-01 10:00:00.000000"
S_tsFull == <<"2", "0", "2", "4", "-", "0", "1", "-", "0", "1", " ",
              "1", "0", ":", "0", "0", ":", "0", "0", ".",
              "0", "0", "0", "0", "0", "0">>
\* "2024-2-29 7:5:9.5"
S_tsShort == <<"2", "0", "2", "4", "-", "2", "-", "2", "9", " ",
               "7", ":", "5", ":", "9", ".", "5">>
\* "2023-02-29 10:00:00.0"
S_tsBadDay == <<"2", "0", "2", "3", "-", "0", "2", "-", "2", "9", " ",
                "1", "0", ":", "0", "0", ":", "0", "0", ".", "0">>

\* ------------------------------------------------- datetime.strptime(...)
\* A character is written as itself when it is printable ASCII, as "\t",
\* "\n", "\r", "\f" for these four, and otherwise as U+ and the four to six
\* hexadecimal digits of its code point: "U+0665" is ARABIC-INDIC DIGIT FIVE.
HexChars == <<"0", "1", "2", "3", "4", "5", "6", "7", "8", "9",
              "A", "B", "C", "D", "E", "F">>

RECURSIVE Hex(_, _)
Hex(n, width) ==
    IF n = 0 /\ width <= 0 THEN ""
    ELSE Hex(n \div 16, width - 1) \o HexChars[(n % 16) + 1]

\* the character of code point cp, for cp outside printable ASCII
Chr(cp) == "U+" \o Hex(cp, 4)

DigitChars == <<"0", "1", "2", "3", "4", "5", "6", "7", "8", "9">>
\* [0-9]
AsciiDigit == {DigitChars[i] : i \in 1..10}
\* [a-b] for ASCII digits a <= b
Range(a, b) == {DigitChars[i + 1] : i \in a..b}

\* the code points of the digit zero of every script of Unicode 14 but
\* ASCII; the digits one to nine of the script follow it
DigitZeros ==
    {1632, 1776, 1984, 2406, 2534, 2662, 2790, 2918, 3046, 3174, 3302,
     3430, 3558, 3664, 3792, 3872, 4160, 4240, 6112, 6160, 6470, 6608,
     6784, 6800, 6992, 7088, 7232, 7248, 42528, 43216, 43264, 43472, 43504,
     43600, 44016, 65296, 66720, 68912, 69734, 69872, 69942, 70096, 70384,
     70736, 70864, 71248, 71360, 71472, 71904, 72016, 72784, 73040, 73120,
     92768, 92864, 93008, 120782, 120792, 120802, 120812, 120822, 123200,
     123632, 125264, 130032}

\* \d of a str pattern: the decimal digits of Unicode
Digit == AsciiDigit \cup {Chr(z + k) : z \in DigitZeros, k \in 0..9}

\* \s of a str pattern: the whitespace of Unicode (U+000B, U+001C-U+001F,
\* U+0085, U+00A0, U+1680, U+2000-U+200A, U+2028, U+2029, U+202F, U+205F,
\* U+3000 besides the ASCII blank, tab, newline, return and form feed)
Space ==
    {" ", "\t", "\n", "\r", "\f"}
    \cup {Chr(cp) : cp \in {11, 28, 29, 30, 31, 133, 160, 5760}
                           \cup 8192..8202
                           \cup {8232, 8233, 8239, 8287, 12288}}

At(s, i) == IF i \in 1..Len(s) THEN s[i] ELSE "EOF"

\* int(c) for a decimal digit c; the blank that int() strips counts nothing
DigitVal(c) ==
    IF c = " " THEN 0
    ELSE IF c \in AsciiDigit THEN (CHOOSE i \in 1..10 : DigitChars[i] = c) - 1
    ELSE CHOOSE k \in 0..9 : \E z \in DigitZeros : Chr(z + k) = c

RECURSIVE RunLen(_, _, _)
RunLen(s, i, set) == IF At(s, i) \in set THEN 1 + RunLen(s, i + 1, set) ELSE 0

\* int(s[i .. i+n-1])
RECURSIVE NumVal(_, _, _)
NumVal(s, i, n) ==
    IF n = 0 THEN 0 ELSE NumVal(s, i, n - 1) * 10 + DigitVal(s[i + n - 1])

RECURSIVE Pow10(_)
Pow10(n) == IF n = 0 THEN 1 ELSE 10 * Pow10(n - 1)

IsLeap(y) == (y % 4 = 0 /\ y % 100 # 0) \/ y % 400 = 0
DaysInMonth(y, m) ==
    IF m = 2 THEN (IF IsLeap(y) THEN 29 ELSE 28)
    ELSE IF m \in {4, 6, 9, 11} THEN 30 ELSE 31

\* the format "%Y-%m-%d %H:%M:%S.%f", directive by directive
Format == <<"%Y", "-", "%m", "-", "%d", " ", "%H", ":", "%M", ":", "%S",
            ".", "%f">>

\* the regular expression that _strptime compiles a directive to, as its
\* alternatives in order, each the classes of its characters:
\*   %Y \d\d\d\d                 %m 1[0-2]|0[1-9]|[1-9]
\*   %d 3[0-1]|[1-2]\d|0[1-9]|[1-9]| [1-9]
\*   %H 2[0-3]|[0-1]\d|\d        %M [0-5]\d|\d       %S 6[0-1]|[0-5]\d|\d
Alternatives(dv) ==
    CASE dv = "%Y" -> << <<Digit, Digit, Digit, Digit>> >>
      [] dv = "%m" -> << <<{"1"}, Range(0, 2)>>, <<{"0"}, Range(1, 9)>>,
                         <<Range(1, 9)>> >>
      [] dv = "%d" -> << <<{"3"}, Range(0, 1)>>, <<Range(1, 2), Digit>>,
                         <<{"0"}, Range(1, 9)>>, <<Range(1, 9)>>,
                         <<{" "}, Range(1, 9)>> >>
      [] dv = "%H" -> << <<{"2"}, Range(0, 3)>>, <<Range(0, 1), Digit>>,
                         <<Digit>> >>
      [] dv = "%M" -> << <<Range(0, 5), Digit>>, <<Digit>> >>
      [] dv = "%S" -> << <<{"6"}, Range(0, 1)>>, <<Range(0, 5), Digit>>,
                         <<Digit>> >>

\* the alternative alt matches s at p
MatchesAt(s, p, alt) == \A i \in 1..Len(alt) : At(s, p + i - 1) \in alt[i]

NoMatch == [ok |-> FALSE, pos |-> 0, found |-> << >>]
Matched(st, n, v) ==
    [ok |-> TRUE, pos |-> st.pos + n, found |-> Append(st.found, v)]
Skipped(st, n) == [ok |-> TRUE, pos |-> st.pos + n, found |-> st.found]

\* one directive of the format matched against s at st.pos.  The blank of
\* the format is \s+; %f is [0-9]{1,6}, padded with zeros on the right; of
\* the alternatives of another directive the first that matches is taken
\* (what follows a directive in this format never matches a digit, so no
\* later alternative can match where the first one does not lead on).
MatchDirective(s, st, dv) ==
    LET p == st.pos
    IN  IF ~st.ok THEN NoMatch
        ELSE IF dv = "%f"
             THEN LET run == RunLen(s, p, AsciiDigit)
                      n == IF run > 6 THEN 6 ELSE run
                  IN  IF run >= 1
                      THEN Matched(st, n, NumVal(s, p, n) * Pow10(6 - n))
                      ELSE NoMatch
        ELSE IF dv = " "
             THEN IF RunLen(s, p, Space) >= 1
                  THEN Skipped(st, RunLen(s, p, Space)) ELSE NoMatch
        ELSE IF dv \in {"-", ":", "."}
             THEN IF At(s, p) = dv THEN Skipped(st, 1) ELSE NoMatch
        ELSE LET alts == Alternatives(dv)
                 hits == {i \in 1..Len(alts) : MatchesAt(s, p, alts[i])}
             IN  IF hits = {} THEN NoMatch
                 ELSE LET first == CHOOSE i \in hits : \A j \in hits : i <= j
                          n == Len(alts[first])
                      IN  Matched(st, n, NumVal(s, p, n))

\* the directives from the k-th on, matched from state st; each state is
\* computed once and handed on as a value
RECURSIVE MatchFrom(_, _, _)
MatchFrom(s, st, k) ==
    IF k > Len(Format) THEN st
    ELSE CHOOSE r \in {MatchFrom(s, next, k + 1) :
                          next \in {MatchDirective(s, st, Format[k])}} : TRUE

\* datetime.strptime(s, "%Y-%m-%d %H:%M:%S.%f") for a str s: the datetime,
\* or ValueError when s does not match the format, text is left over, the
\* year is 0, the month does not have the day or the second is 60 or 61
strptime(s) ==
    CHOOSE r \in
      {IF /\ m.ok
          /\ m.pos = Len(s) + 1
          /\ m.found[1] >= 1
          /\ m.found[3] <= DaysInMonth(m.found[1], m.found[2])
          /\ m.found[6] <= 59
       THEN DateTime(m.found[1], m.found[2], m.found[3], m.found[4],
                     m.found[5], m.found[6], m.found[7])
       ELSE ValueError :
         m \in {MatchFrom(s, [ok |-> TRUE, pos |-> 1, found |-> << >>], 1)}}
      : TRUE

\* ----------------------------------------------------------------- helpers
\* the list [None, "", "null", "NULL", "NA"] of safe and safe_timestamp
Sentinels == {NoneV, Str(S_empty), Str(S_null), Str(S_NULL), Str(S_NA)}

safe_noNA(value, default) ==
    IF value \in Sentinels \ {Str(S_NA)} THEN default ELSE value

\* safe(value, default=0)
safe(value, default) == IF value \in Sentinels THEN default ELSE value

\* safe_timestamp(value): strptime raises TypeError for a value that is not
\* a str and ValueError for a str that does not parse; both give None
safe_timestamp(value) ==
    IF value \in Sentinels THEN NoneV
    ELSE IF value.t # "str" THEN NoneV
    ELSE CHOOSE r \in {IF parsed = ValueError THEN NoneV ELSE parsed :
                          parsed \in {strptime(value.s)}} : TRUE

\* -------------------------------------------------------------- the table
\* the named placeholders of the INSERT statement, one per column
Placeholders ==
    {"imei", "assetname", "gpsiat", "latitude", "longitude", "direction",
     "speed", "disttravelled_all", "disttravelled_today", "bmsiat", "cc",
     "voltage", "current", "soc",
     "maxvoltagecellvalue", "maxvltagecellnumber",
     "minvoltagecellvalue", "minvoltagecellnumber",
     "ChargeDischargeStatus", "ChargingCurrent", "dischargingcurrent",
     "DeviceStatus", "serial", "barcode",
     "cellVolt1", "cellVolt2", "cellVolt3", "cellVolt4", "cellVolt5",
     "cellVolt6", "cellVolt7", "cellVolt8", "cellVolt9", "cellVolt10",
     "cellVolt11", "cellVolt12", "cellVolt13", "cellVolt14", "cellVolt15",
     "cellVolt16",
     "cellTemp1", "cellTemp2", "cellTemp3", "cellTemp4", "cellTemp5",
     "cellTemp6", "cellTemp7", "cellTemp8", "cellTemp9", "cellTemp10",
     "cellTemp11", "cellTemp12", "cellTemp13", "cellTemp14", "cellTemp15",
     "cellTemp16",
     "charging", "avgrangekm", "maxrangekm", "minrangekm",
     "created_at"}

TimestampFields == {"gpsiat", "bmsiat"}

\* -------------------------------------------------- inputs: device records
\* a record of the API that carries every column but created_at
BaseDevice == [k \in Placeholders \ {"created_at"} |-> Num(1)]

\* every column; sentinels of each form; a gpsiat with one-digit fields; a
\* bmsiat that is not a string
DevFull ==
    ("imei" :> Str(S_789) @@ "gpsiat" :> Str(S_tsShort)
       @@ "bmsiat" :> Num(5) @@ "latitude" :> Str(S_lat)
       @@ "voltage" :> NoneV @@ "assetname" :> Str(S_empty)
       @@ "serial" :> Str(S_null) @@ "barcode" :> Str(S_NULL)
       @@ "soc" :> Str(S_NA)) @@ BaseDevice

\* every column, a created_at of its own (a sentinel), a gpsiat naming a
\* day that does not exist, a sentinel bmsiat, a serial of null and a key
\* that is no column
DevStamped ==
    ("imei" :> Str(S_456) @@ "gpsiat" :> Str(S_tsBadDay)
       @@ "bmsiat" :> Str(S_NA) @@ "voltage" :> Num(48)
       @@ "serial" :> NoneV @@ "created_at" :> Str(S_NA)
       @@ "firmware" :> Str(S_123)) @@ BaseDevice

\* {"imei": "123", "gpsiat": "2024-01-01 10:00:00.000000",
\*  "latitude": "12.34", "voltage": null}
DevPartial ==
    "imei" :> Str(S_123) @@ "gpsiat" :> Str(S_tsFull)
       @@ "latitude" :> Str(S_lat) @@ "voltage" :> NoneV

DeviceSet == {DevFull, DevStamped, DevPartial}

\* ------------------------------------------------- inputs: API responses
List(items) == [t |-> "list", items |-> items]
Dict(m) == [t |-> "dict", m |-> m]

\* the endpoint reports the last known location of each device: a `data`
\* list holds at most one record of a device, in any order
RECURSIVE SeqsUpTo(_, _)
SeqsUpTo(S, n) ==
    IF n = 0 THEN {<< >>}
    ELSE LET shorter == SeqsUpTo(S, n - 1)
         IN  shorter \cup
             {Append(q, e) : q \in shorter, e \in S}

IsInjective(q) == \A i, j \in 1..Len(q) : q[i] = q[j] => i = j

DeviceLists ==
    {q \in SeqsUpTo({Dict(d) : d \in DeviceSet}, MaxDevices) : IsInjective(q)}

\* response bodies: text that is not JSON, a JSON array, a JSON object
BodyText == [type |-> "text"]
BodyArray == [type |-> "array"]
BodyObject(members) == [type |-> "object", members |-> members]

NoDataBody == BodyObject("error" :> Str(S_NA))
NullDataBody == BodyObject("data" :> NoneV)
DataBody(items) == BodyObject("data" :> List(items))
\* {"data": "NA"} and {"data": {"imei": "123"}}: a `data` that is no list
StrDataBody == BodyObject("data" :> Str(S_NA))
DictDataBody == BodyObject("data" :> Dict("imei" :> Str(S_123)))

\* outcomes of requests.post: an exception of the transport, or a response
Timeout == [kind |-> "Timeout"]
ConnectionError == [kind |-> "ConnectionError"]
Http(status, body) == [kind |-> "http", status |-> status, body |-> body]

Responses ==
    {Timeout, ConnectionError}
    \cup {Http(200, DataBody(items)) : items \in DeviceLists}
    \cup {Http(200, b) : b \in {BodyText, BodyArray, NoDataBody, NullDataBody,
                               StrDataBody, DictDataBody}}
    \cup {Http(s, NoDataBody) : s \in {302, 404, 500}}
    \cup {Http(302, DataBody(<<Dict(DevFull)>>))}

\* ---------------------------------------------------------- fetch_api_data
NoException == "none"
Return(v) == [exc |-> NoException, value |-> v]
Raise(e) == [exc |-> e, value |-> NoneV]

\* res.raise_for_status(): HTTPError for a 4xx or 5xx status only
raise_for_status(status) == status \in 400..599

\* fetch_api_data(), given the outcome of its one requests.post
fetch_api_data(res) ==
    IF res.kind # "http" THEN Raise(res.kind)
    ELSE IF raise_for_status(res.status) THEN Raise("HTTPError")
    ELSE IF res.body.type = "text" THEN Raise("JSONDecodeError")
    ELSE IF res.body.type # "object" THEN Raise("AttributeError")
    ELSE IF "data" \in DOMAIN res.body.members
         THEN Return(res.body.members["data"])
         ELSE Return(List(<< >>))

\* ----------------------------------------------------------- upsert_device
Unbound == [t |-> "unbound"]

\* d[k] = v
SetItem(d, k, v) == (k :> v) @@ d
\* d.get(k)
Get(d, k) == IF k \in DOMAIN d THEN d[k] ELSE NoneV

\* datetime.now() at reading c of the clock
Now(c) == DateTime(2026, 1, 1, 0, 0, c, 0)

NormalizeKeepCreatedAt(device, c) ==
    LET d0 == [k \in DOMAIN device |-> safe(device[k], Num(0))]
        d1 == SetItem(d0, "gpsiat", safe_timestamp(Get(device, "gpsiat")))
    IN  SetItem(d1, "bmsiat", safe_timestamp(Get(device, "bmsiat")))

\* the mapping `data` that upsert_device builds for a device
Normalize(device, c) ==
    LET d0 == [k \in DOMAIN device |-> safe(device[k], Num(0))]
        d1 == SetItem(d0, "gpsiat", safe_timestamp(Get(device, "gpsiat")))
        d2 == SetItem(d1, "bmsiat", safe_timestamp(Get(device, "bmsiat")))
    IN  SetItem(d2, "created_at", Now(c))

\* the row that the INSERT statement builds from `data`
RowOf(d) == [c \in Placeholders |-> d[c]]

ReplaceRow(rows, row) ==
    IF \E i \in 1..Len(rows) : rows[i]["imei"] = row["imei"]
    THEN [i \in 1..Len(rows) |->
             IF rows[i]["imei"] = row["imei"] THEN row ELSE rows[i]]
    ELSE Append(rows, row)

\* device_data after the INSERT of row is committed
InsertRow(rows, row) == Append(rows, row)

\* -------------------------------------------------------------------- main
\* iter(v) succeeds: for a list, a str and a dict among the JSON values
Iterable(v) == v.t \in {"list", "str", "dict"}

\* the characters of the keys that a `data` dict of Responses has
KeyChars == "imei" :> S_imei

\* what `for device in v` binds device to, in order: the items of a list,
\* the characters of a str, the keys of a dict (in the order of insertion,
\* which a mapping does not record: some order of the keys)
Items(v) ==
    CASE v.t = "list" -> v.items
      [] v.t = "str" -> [i \in 1..Len(v.s) |-> Str(<<v.s[i]>>)]
      [] v.t = "dict" ->
           LET n == Cardinality(DOMAIN v.m)
               order == CHOOSE f \in [1..n -> DOMAIN v.m] :
                            \A i, j \in 1..n : f[i] = f[j] => i = j
           IN  [i \in 1..n |-> Str(KeyChars[order[i]])]

CatchesDbErrorsOnly(e) == e \in {"OperationalError", "InterfaceError"}

\* `except Exception` of main: every exception a tick raises is a subclass
Catches(e) == TRUE

\* ------------------------------------------------------------------- state
VARIABLES
    pc,         \* position of the main thread in main() and upsert_device()
    conn,       \* the connection bound to `conn` of main: unbound, open, closed
    devices,    \* `devices` of main: the value fetch_api_data returned
    idx,        \* position of `for device in devices` (1-based)
    data,       \* `data` of upsert_device
    exc,        \* the exception in flight, if any
    store,      \* the committed rows of device_data, in commit order
    clock,      \* the local time: it advances, and a reading is no earlier
    web,        \* the health thread: notstarted, starting, serving
    reply,      \* the last answer to GET / and where main was at that time
    response,   \* this tick: the outcome of requests.post
    requests,   \* this tick: the number of requests.post calls
    attempts,   \* this tick: the number of upsert_device calls
    failedAt,   \* this tick: the call whose exception reached main
    envFault,   \* this tick: the store or the connection failed an operation
    tickStart   \* the rows of device_data when this tick began

loopVars == <<pc, conn, devices, idx, data, exc, store, clock,
              response, requests, attempts, failedAt, envFault, tickStart>>
tickVars == <<response, requests, attempts, failedAt, envFault, tickStart>>
vars == <<pc, conn, devices, idx, data, exc, store, clock, web, reply,
          response, requests, attempts, failedAt, envFault, tickStart>>

NoResponse == [kind |-> "none"]
NoReply == [status |-> 0]

\* ------------------------------------------------------------------ health
healthOfLoop ==
    IF pc = "except"
    THEN [status |-> 503,
          body |-> [status |-> "error", service |-> "vizvolt-ingestion"]]
    ELSE [status |-> 200,
          body |-> [status |-> "ok", service |-> "vizvolt-ingestion"]]

\* health(): the answer to GET /
health == [status |-> 200,
           body |-> [status |-> "ok", service |-> "vizvolt-ingestion"]]

Init ==
    /\ pc = "start"
    /\ conn = "unbound"
    /\ devices = Unbound
    /\ idx = 0
    /\ data = Unbound
    /\ exc = NoException
    /\ store = << >>
    /\ clock = 1
    /\ web = "notstarted"
    /\ reply = NoReply
    /\ response = NoResponse
    /\ requests = 0
    /\ attempts = 0
    /\ failedAt = "none"
    /\ envFault = FALSE
    /\ tickStart = << >>

\* ----------------------------------------------------------- health thread
\* threading.Thread(target=start_web, daemon=True).start()
StartThread ==
    /\ pc = "start"
    /\ pc' = "connect"
    /\ web' = "starting"
    /\ UNCHANGED <<conn, devices, idx, data, exc, store, clock, reply>>
    /\ UNCHANGED tickVars

\* start_web(): uvicorn.run serves the app
StartWeb ==
    /\ web = "starting"
    /\ web' = "serving"
    /\ UNCHANGED <<reply>>
    /\ UNCHANGED loopVars

\* what the poll loop is doing at position p
Phase(p) ==
    CASE p = "start" -> "starting"
      [] p = "connect" -> "connecting"
      [] p = "fetch" -> "fetching"
      [] p = "except" -> "exception"
      [] p = "sleep" -> "sleeping"
      [] p = "exited" -> "exited"
      [] OTHER -> "inserting"

\* a client's GET / while the server runs
HealthRequest ==
    /\ web = "serving"
    /\ reply' = [status |-> health.status, body |-> health.body,
                 at |-> Phase(pc)]
    /\ UNCHANGED <<web>>
    /\ UNCHANGED loopVars

\* ------------------------------------------------------------- main thread
\* an exception leaves the try block of main at the call `at`
RaiseToMain(e, at) ==
    /\ pc' = "except"
    /\ exc' = e
    /\ failedAt' = at

\* conn = get_db_connection() returns; the connection `conn` named before
\* loses its last reference and is closed by its destructor
GetDbConnectionOk ==
    /\ pc = "connect"
    /\ conn' = "open"
    /\ pc' = "fetch"
    /\ UNCHANGED <<devices, idx, data, exc, store, clock, web, reply>>
    /\ UNCHANGED tickVars

\* psycopg2.connect raises: `conn` keeps what it named
GetDbConnectionFail ==
    /\ pc = "connect"
    /\ RaiseToMain("OperationalError", "connect")
    /\ envFault' = TRUE
    /\ UNCHANGED <<conn, devices, idx, data, store, clock, web, reply>>
    /\ UNCHANGED <<response, requests, attempts, tickStart>>

\* devices = fetch_api_data(), for each outcome res of its requests.post
FetchApiData ==
    /\ pc = "fetch"
    /\ \E res \in Responses :
         LET result == fetch_api_data(res)
         IN  /\ response' = res
             /\ requests' = requests + 1
             /\ IF result.exc # NoException
                THEN /\ RaiseToMain(result.exc, "fetch")
                     /\ UNCHANGED <<devices, idx>>
                ELSE /\ devices' = result.value
                     /\ idx' = 1
                     /\ pc' = "for"
                     /\ UNCHANGED <<exc, failedAt>>
    /\ UNCHANGED <<conn, data, store, clock, web, reply>>
    /\ UNCHANGED <<attempts, envFault, tickStart>>

\* for device in devices: iter(devices) raises TypeError (None, a number)
ForNotIterable ==
    /\ pc = "for"
    /\ ~Iterable(devices)
    /\ RaiseToMain("TypeError", "for")
    /\ UNCHANGED <<conn, devices, idx, data, store, clock, web, reply>>
    /\ UNCHANGED <<response, requests, attempts, envFault, tickStart>>

\* for device in devices: the next device; upsert_device(conn, device) is
\* called
ForNext ==
    /\ pc = "for"
    /\ Iterable(devices)
    /\ idx <= Len(Items(devices))
    /\ attempts' = attempts + 1
    /\ pc' = "cursor"
    /\ UNCHANGED <<conn, devices, idx, data, exc, store, clock, web, reply>>
    /\ UNCHANGED <<response, requests, failedAt, envFault, tickStart>>

\* for device in devices: the iterator is exhausted
ForDone ==
    /\ pc = "for"
    /\ Iterable(devices)
    /\ idx > Len(Items(devices))
    /\ pc' = "close"
    /\ UNCHANGED <<conn, devices, idx, data, exc, store, clock, web, reply>>
    /\ UNCHANGED tickVars

\* cursor = conn.cursor()
CursorOk ==
    /\ pc = "cursor"
    /\ pc' = "sanitize"
    /\ UNCHANGED <<conn, devices, idx, data, exc, store, clock, web, reply>>
    /\ UNCHANGED tickVars

\* conn.cursor() raises, outside the try block of upsert_device
CursorFail ==
    /\ pc = "cursor"
    /\ RaiseToMain("InterfaceError", "cursor")
    /\ envFault' = TRUE
    /\ UNCHANGED <<conn, devices, idx, data, store, clock, web, reply>>
    /\ UNCHANGED <<response, requests, attempts, tickStart>>

\* data = {...}; data["gpsiat"], data["bmsiat"], data["created_at"]: the
\* clock is read here, and reads no less than at its last reading
Sanitize ==
    /\ pc = "sanitize"
    /\ Items(devices)[idx].t = "dict"
    /\ \E now \in clock..MaxClock :
         /\ clock' = now
         /\ data' = Dict(Normalize(Items(devices)[idx].m, now))
    /\ pc' = "execute"
    /\ UNCHANGED <<conn, devices, idx, exc, store, web, reply>>
    /\ UNCHANGED tickVars

\* device.items() of a device that is no dict: AttributeError, inside the
\* try block of upsert_device
SanitizeNotDict ==
    /\ pc = "sanitize"
    /\ Items(devices)[idx].t # "dict"
    /\ exc' = "AttributeError"
    /\ pc' = "rollback"
    /\ UNCHANGED <<conn, devices, idx, data, store, clock, web, reply>>
    /\ UNCHANGED tickVars

\* cursor.execute: a placeholder that `data` does not have is a KeyError
ExecuteKeyError ==
    /\ pc = "execute"
    /\ ~(Placeholders \subseteq DOMAIN data.m)
    /\ exc' = "KeyError"
    /\ pc' = "rollback"
    /\ UNCHANGED <<conn, devices, idx, data, store, clock, web, reply>>
    /\ UNCHANGED tickVars

\* cursor.execute: the store takes the statement
ExecuteOk ==
    /\ pc = "execute"
    /\ Placeholders \subseteq DOMAIN data.m
    /\ Len(store) < MaxRows
    /\ pc' = "commit"
    /\ UNCHANGED <<conn, devices, idx, data, exc, store, clock, web, reply>>
    /\ UNCHANGED tickVars

\* cursor.execute: the store refuses the statement
ExecuteFail ==
    /\ pc = "execute"
    /\ Placeholders \subseteq DOMAIN data.m
    /\ exc' = "DatabaseError"
    /\ envFault' = TRUE
    /\ pc' = "rollback"
    /\ UNCHANGED <<conn, devices, idx, data, store, clock, web, reply>>
    /\ UNCHANGED <<response, requests, attempts, failedAt, tickStart>>

\* conn.commit()
CommitOk ==
    /\ pc = "commit"
    /\ store' = InsertRow(store, RowOf(data.m))
    /\ pc' = "finally"
    /\ UNCHANGED <<conn, devices, idx, data, exc, clock, web, reply>>
    /\ UNCHANGED tickVars

\* conn.commit() raises
CommitFail ==
    /\ pc = "commit"
    /\ exc' = "OperationalError"
    /\ envFault' = TRUE
    /\ pc' = "rollback"
    /\ UNCHANGED <<conn, devices, idx, data, store, clock, web, reply>>
    /\ UNCHANGED <<response, requests, attempts, failedAt, tickStart>>

\* except Exception: conn.rollback(); the exception is handled
RollbackOk ==
    /\ pc = "rollback"
    /\ exc' = NoException
    /\ pc' = "finally"
    /\ UNCHANGED <<conn, devices, idx, data, store, clock, web, reply>>
    /\ UNCHANGED tickVars

\* conn.rollback() raises inside the except block
RollbackFail ==
    /\ pc = "rollback"
    /\ exc' = "InterfaceError"
    /\ envFault' = TRUE
    /\ pc' = "finally"
    /\ UNCHANGED <<conn, devices, idx, data, store, clock, web, reply>>
    /\ UNCHANGED <<response, requests, attempts, failedAt, tickStart>>

\* finally: cursor.close(); upsert_device returns to the loop
FinallyReturn ==
    /\ pc = "finally"
    /\ exc = NoException
    /\ data' = Unbound
    /\ idx' = idx + 1
    /\ pc' = "for"
    /\ UNCHANGED <<conn, devices, exc, store, clock, web, reply>>
    /\ UNCHANGED tickVars

\* finally: cursor.close(); the exception of the rollback leaves
\* upsert_device
FinallyRaise ==
    /\ pc = "finally"
    /\ exc # NoException
    /\ data' = Unbound
    /\ RaiseToMain(exc, "rollback")
    /\ UNCHANGED <<conn, devices, idx, store, clock, web, reply>>
    /\ UNCHANGED <<response, requests, attempts, envFault, tickStart>>

\* conn.close()
CloseConn ==
    /\ pc = "close"
    /\ conn' = "closed"
    /\ pc' = "sleep"
    /\ UNCHANGED <<devices, idx, data, exc, store, clock, web, reply>>
    /\ UNCHANGED tickVars

\* except Exception as e: print("MAIN LOOP ERROR:", e); an exception that
\* the clause does not catch ends main
Except ==
    /\ pc = "except"
    /\ pc' = IF Catches(exc) THEN "sleep" ELSE "exited"
    /\ exc' = IF Catches(exc) THEN NoException ELSE exc
    /\ UNCHANGED <<conn, devices, idx, data, store, clock, web, reply>>
    /\ UNCHANGED tickVars

\* time.sleep(10), then the next iteration of `while True`.  `devices` is
\* bound again by fetch_api_data before main reads it, so what it named is
\* dropped here; the observations of the tick start afresh.
Sleep ==
    /\ pc = "sleep"
    /\ pc' = "connect"
    /\ clock' = IF clock < MaxClock THEN clock + 1 ELSE clock
    /\ devices' = Unbound
    /\ idx' = 0
    /\ response' = NoResponse
    /\ requests' = 0
    /\ attempts' = 0
    /\ failedAt' = "none"
    /\ envFault' = FALSE
    /\ tickStart' = store
    /\ UNCHANGED <<conn, data, exc, store, web, reply>>

MainThread ==
    \/ StartThread
    \/ GetDbConnectionOk \/ GetDbConnectionFail
    \/ FetchApiData
    \/ ForNotIterable \/ ForNext \/ ForDone
    \/ CursorOk \/ CursorFail
    \/ Sanitize \/ SanitizeNotDict
    \/ ExecuteKeyError \/ ExecuteOk \/ ExecuteFail
    \/ CommitOk \/ CommitFail
    \/ RollbackOk \/ RollbackFail
    \/ FinallyReturn \/ FinallyRaise
    \/ CloseConn
    \/ Except
    \/ Sleep

Next == MainThread \/ StartWeb \/ HealthRequest

Spec == Init /\ [][Next]_vars

\* the main thread alone (the health thread shares no variable with it):
\* every call of the main thread returns or raises, and main goes on
FairSpec == Init /\ [][MainThread]_vars /\ WF_vars(MainThread)

TypeOK ==
    /\ pc \in {"start", "connect", "fetch", "for", "cursor", "sanitize",
               "execute", "commit", "rollback", "finally", "close",
               "except", "sleep", "exited"}
    /\ conn \in {"unbound", "open", "closed"}
    /\ idx \in 0..(MaxDevices + 1)
    /\ Len(store) <= MaxRows
    /\ clock \in 1..MaxClock
    /\ web \in {"notstarted", "starting", "serving"}
    /\ attempts \in 0..MaxDevices
    /\ requests \in 0..1

\* ================================================================== claims

\* C1: in a tick whose connection and fetch succeed with N device records,
\* upsert_device is attempted for all N records, whatever fails while a
\* record is inserted (cursor creation and rollback included).
C1_AllRecordsAttempted ==
    (pc = "sleep" /\ devices.t = "list") => attempts = Len(devices.items)

\* C2: a tick whose response is the single record {imei, gpsiat, latitude,
\* voltage = null}, with a store that accepts what it is given, inserts
\* exactly one row: gpsiat parsed, latitude unchanged, voltage 0,
\* created_at the current time.
C2_PartialRecordInserted ==
    (/\ pc = "sleep"
     /\ response = Http(200, DataBody(<<Dict(DevPartial)>>))
     /\ ~envFault)
    => /\ Len(store) = Len(tickStart) + 1
       /\ store[Len(store)]["gpsiat"] = DateTime(2024, 1, 1, 10, 0, 0, 0)
       /\ store[Len(store)]["latitude"] = Str(S_lat)
       /\ store[Len(store)]["voltage"] = Num(0)
       /\ store[Len(store)]["created_at"] = Now(clock)

\* C3: the poll loop never ends and never stays in a failed tick: main is
\* never exited, a tick is begun again and again from every state (a state
\* in which an exception has reached main included), and the only way into
\* a tick after the first is the sleep; the handler of main goes nowhere
\* but to the sleep.
C3_LoopNeverStops ==
    /\ [](pc # "exited")
    /\ [][pc' = "connect" => pc \in {"start", "sleep"}]_vars
    /\ [][pc = "except" => pc' = "sleep"]_vars
    /\ []<>(pc = "connect")

\* a failed device insert let its error escape, and the loop sleeps
C3_Witness == pc = "sleep" /\ failedAt = "rollback"

\* C4: a tick in which get_db_connection raises, or whose fetch fails as
\* the claim counts it (a timeout, an error of the transport, a status
\* outside 2xx), attempts no insert and leaves the store with the rows it
\* had when the tick began.
FetchFailed(res) ==
    \/ res.kind \in {"Timeout", "ConnectionError"}
    \/ res.kind = "http" /\ res.status \notin 200..299

C4_FailedTickInsertsNothing ==
    (failedAt = "connect" \/ FetchFailed(response))
    => (attempts = 0 /\ store = tickStart)

\* C5: GET / answers 200 with the fixed payload whatever the poll loop is
\* doing; answering changes no state of the poll loop, and no step of the
\* poll loop stops the server or keeps it from answering.
C5_HealthIndependent ==
    /\ [](reply # NoReply =>
            /\ reply.status = 200
            /\ reply.body = [status |-> "ok", service |-> "vizvolt-ingestion"])
    /\ [](web = "serving" => ENABLED HealthRequest)
    /\ [][reply' # reply => UNCHANGED loopVars]_vars
    /\ [][web = "serving" => web' = "serving"]_vars

\* GET / was answered right after an exception reached main
C5_Witness == reply # NoReply /\ reply.at = "exception"

\* C6 as stated: timestamp fields with a sentinel or no value become None;
\* every other field becomes 0 for a sentinel and is unchanged otherwise.
C6_EveryOtherField ==
    data # Unbound =>
      LET device == Items(devices)[idx].m
      IN  \A k \in DOMAIN device \cup TimestampFields :
            IF k \in TimestampFields
            THEN Get(device, k) \in Sentinels => data.m[k] = NoneV
            ELSE IF device[k] \in Sentinels
                 THEN data.m[k] = Num(0)
                 ELSE data.m[k] = device[k]

\* C6 (amended): timestamp fields with a sentinel or no value become None;
\* every other field but created_at becomes 0 for a sentinel and is
\* unchanged otherwise; created_at is the local time in every case.
C6_EveryOtherFieldButCreatedAt ==
    data # Unbound =>
      LET device == Items(devices)[idx].m
      IN  /\ \A k \in (DOMAIN device \cup TimestampFields) \ {"created_at"} :
               IF k \in TimestampFields
               THEN Get(device, k) \in Sentinels => data.m[k] = NoneV
               ELSE IF device[k] \in Sentinels
                    THEN data.m[k] = Num(0)
                    ELSE data.m[k] = device[k]
          /\ data.m["created_at"] = Now(clock)

\* a record was normalized that has a created_at of its own, a sentinel
\* timestamp, a sentinel in another field and a value to pass through
C6_Witness ==
    /\ data # Unbound
    /\ LET device == Items(devices)[idx].m
       IN  /\ "created_at" \in DOMAIN device
           /\ \E k \in TimestampFields : Get(device, k) \in Sentinels
           /\ \E k \in DOMAIN device \ (TimestampFields \cup {"created_at"}) :
                device[k] \in Sentinels /\ data.m[k] = Num(0)
           /\ \E k \in DOMAIN device \ (TimestampFields \cup {"created_at"}) :
                device[k] \notin Sentinels

\* C7: the store is append-only: a step keeps every committed row where it
\* was and as it was, a commit adds exactly one row, also when a row of the
\* same device record is there already, and nothing else adds a row.
C7_AppendOnly ==
    [][/\ Len(store') >= Len(store)
       /\ SubSeq(store', 1, Len(store)) = store
       /\ (pc = "commit" /\ pc' = "finally")
            => store' = Append(store, RowOf(data.m))
       /\ ~(pc = "commit" /\ pc' = "finally") => store' = store]_vars

\* the same device record was committed in two ticks: two rows that differ
\* in created_at only
C7_Witness ==
    /\ Len(store) = 2
    /\ store[1]["created_at"] # store[2]["created_at"]
    /\ [store[1] EXCEPT !["created_at"] = NoneV]
         = [store[2] EXCEPT !["created_at"] = NoneV]

\* C8: every committed row has a created_at that is not null and is a
\* reading of the local clock, also when the record had a created_at.
C8_CreatedAtStamped ==
    \A i \in 1..Len(store) :
        /\ store[i]["created_at"] # NoneV
        /\ store[i]["created_at"] \in {Now(c) : c \in 1..MaxClock}

\* a row was committed for a record that carried a created_at of its own
C8_Witness ==
    \E i \in 1..Len(store) :
        \E d \in DeviceSet :
            /\ "created_at" \in DOMAIN d
            /\ \A k \in Placeholders \ (TimestampFields \cup {"created_at"}) :
                 store[i][k] = safe(d[k], Num(0))

\* C9: whenever the loop sleeps between two ticks, no connection that the
\* loop opened is still open.
C9_NoOpenConnectionAsleep == pc = "sleep" => conn # "open"

\* C10: fetch_api_data issues one request, raises for a transport failure,
\* a status outside 2xx and a body that is not a JSON object with a `data`
\* list, and returns the list of device records otherwise.
WellFormed(res) ==
    /\ res.kind = "http"
    /\ res.status \in 200..299
    /\ res.body.type = "object"
    /\ "data" \in DOMAIN res.body.members
    /\ res.body.members["data"].t = "list"

C10_FetchSurfacesFailures ==
    response # NoResponse =>
      /\ requests = 1
      /\ IF WellFormed(response)
         THEN failedAt # "fetch" /\ devices = response.body.members["data"]
         ELSE failedAt = "fetch"
====
